---------------------------- MODULE Spec2Model ----------------------------
(***************************************************************************)
(* Model of the daemon API server of fw-id-agent (internal/api/server.go): *)
(* the Server object, its lifecycle operations Start and Stop, the accept  *)
(* loop goroutine handleClients, the per-connection intake handleRequest   *)
(* and the unbuffered requests channel read by the agent (the consumer).   *)
(*                                                                         *)
(* Every goroutine is a small program counter machine.  The caller of      *)
(* Start and Stop is one sequential thread.  log.Fatal and a panic end the *)
(* whole process: after either no action is enabled.                       *)
(*                                                                         *)
(* Spec is the lifecycle the server is written for: Start is called once,  *)
(* Stop any number of times.  SpecRestart lets the caller call Start and   *)
(* Stop in any sequence, which the code does not prevent.                  *)
(***************************************************************************)
EXTENDS Naturals, Sequences, FiniteSets

\* Bounds of the model.
MaxStarts == 2
MaxStops == 2
MaxConns == 2

Loops == 1..MaxStarts      \* the k-th Start creates listener k and goroutine k
Conns == 1..MaxConns       \* connections are numbered in the order of Accept

VARIABLES
    sockFile,      \* whether a file exists at s.sockFile
    listen,        \* s.listen: 0 is nil, k is the listener the k-th Start made
    lopen,         \* lopen[k]: listener k is open (created and not closed)
    requestsClosed,\* s.requests has been closed
    stop,          \* s.stop (read and written under s.mutex)
    callerPc,      \* position of the thread calling Start and Stop
    crashed,       \* "no", "fatal" (log.Fatal -> os.Exit) or "panic"
    loopPc,        \* loopPc[g]: position of goroutine g in handleClients
    loopListen,    \* loopListen[g]: the listener g's Accept call runs on
    loopErr,       \* loopErr[g]: why g's Accept failed
    loopConn,      \* loopConn[g]: the conn g passed to handleRequest
    connPc,        \* connPc[c]: position of handleRequest(c)
    connOpen,      \* connOpen[c]: the server has not closed c
    connMsg,       \* connMsg[c]: msg.Type as read by ReadMessage, or "none"
    connOps,       \* history: the operations the server did on c, in order
    handoffs,      \* history: the requests received from s.requests, in order
    logs,          \* history: the messages logged
    starts,        \* history: number of Start calls
    conns,         \* history: number of accepted connections
    closeCalls,    \* history: number of close(s.requests) executions
    stopLog        \* history: one record per Stop call

vars == <<sockFile, listen, lopen, requestsClosed, stop, callerPc, crashed,
          loopPc, loopListen, loopErr, loopConn, connPc, connOpen, connMsg,
          connOps, handoffs, logs, starts, conns, closeCalls, stopLog>>

serverVars == <<sockFile, listen, lopen, requestsClosed, stop>>
loopVars == <<loopPc, loopListen, loopErr, loopConn>>
connVars == <<connPc, connOpen, connMsg, connOps>>
histVars == <<handoffs, logs, starts, conns, closeCalls, stopLog>>

\* The message types the switch of handleRequest tells apart: the two it
\* accepts and the types it does not know (an Error message sent by a client,
\* or a number that is no type at all).
TypeQuery == "Query"
TypeRelogin == "Relogin"
MsgTypes == {TypeQuery, TypeRelogin, "Error", "Unknown"}

\* NewError(p): the Error message carrying payload p.
NewError(p) == [Type |-> "Error", Value |-> p]

\* &Request{msg: msg, conn: conn}
Request(m, c) == [msg |-> m, conn |-> c]

Alive == crashed = "no"

\* handleRequest(c) has been entered and has not returned.
InIntake(c) == connPc[c] \in {"deadline", "read", "check", "send"}

\* Goroutine g runs handleClients and has not reached its deferred cleanup.
LoopRunning(g) == loopPc[g] \in {"accept", "inAccept", "checkStop", "handle"}

\* The values a read of s.listen by goroutine g can return.  Start writes
\* s.listen without synchronisation while the goroutines of earlier Starts
\* read it (a data race): such a read returns the value written before g was
\* launched or any value written since.
ReadListen(g) == {l \in Loops : g <= l /\ l <= listen}

Init ==
    /\ sockFile \in BOOLEAN
    /\ listen = 0
    /\ lopen = [l \in Loops |-> FALSE]
    /\ requestsClosed = FALSE
    /\ stop = FALSE
    /\ callerPc = "idle"
    /\ crashed = "no"
    /\ loopPc = [g \in Loops |-> "none"]
    /\ loopListen = [g \in Loops |-> 0]
    /\ loopErr = [g \in Loops |-> "none"]
    /\ loopConn = [g \in Loops |-> 0]
    /\ connPc = [c \in Conns |-> "none"]
    /\ connOpen = [c \in Conns |-> FALSE]
    /\ connMsg = [c \in Conns |-> "none"]
    /\ connOps = [c \in Conns |-> <<>>]
    /\ handoffs = <<>>
    /\ logs = {}
    /\ starts = 0
    /\ conns = 0
    /\ closeCalls = 0
    /\ stopLog = <<>>

----------------------------------------------------------------------------
\* Mutant of Start: a failure of os.Chmod is fatal too (log.Fatal at line 122).
Start_ChmodFatal(rmOk, bindOk, chmodOk) ==
    /\ Alive
    /\ callerPc = "idle"
    /\ rmOk => sockFile
    /\ bindOk => (rmOk \/ ~sockFile)
    /\ starts' = starts + 1
    /\ IF bindOk
       THEN /\ listen' = starts + 1
            /\ lopen' = [lopen EXCEPT ![starts + 1] = TRUE]
            /\ sockFile' = TRUE
            /\ loopPc' = IF chmodOk
                         THEN [loopPc EXCEPT ![starts + 1] = "accept"]
                         ELSE loopPc
            /\ crashed' = IF chmodOk THEN crashed ELSE "fatal"
            /\ logs' = logs
                 \cup (IF rmOk THEN {"Removed existing unix socket file"} ELSE {})
                 \cup (IF chmodOk THEN {}
                       ELSE {"Agent could not set permissions of socket file"})
       ELSE /\ crashed' = "fatal"
            /\ sockFile' = (sockFile /\ ~rmOk)
            /\ logs' = logs
                 \cup (IF rmOk THEN {"Removed existing unix socket file"} ELSE {})
                 \cup {"Agent could not start unix listener"}
            /\ UNCHANGED <<listen, lopen, loopPc>>
    /\ UNCHANGED <<requestsClosed, stop, callerPc, loopListen, loopErr, loopConn,
                   connVars, handoffs, conns, closeCalls, stopLog>>

\* Server.Start.  rmOk: os.Remove succeeded; bindOk: net.Listen succeeded;
\* chmodOk: os.Chmod succeeded.  os.Remove can only succeed on an existing
\* file, and net.Listen cannot bind a path at which a file is left.
Start(rmOk, bindOk, chmodOk) ==
    /\ Alive
    /\ callerPc = "idle"
    /\ rmOk => sockFile
    /\ bindOk => (rmOk \/ ~sockFile)
    /\ starts' = starts + 1
    /\ IF bindOk
       THEN /\ listen' = starts + 1
            /\ lopen' = [lopen EXCEPT ![starts + 1] = TRUE]
            /\ sockFile' = TRUE
            /\ loopPc' = [loopPc EXCEPT ![starts + 1] = "accept"]
            /\ logs' = logs
                 \cup (IF rmOk THEN {"Removed existing unix socket file"} ELSE {})
                 \cup (IF chmodOk THEN {}
                       ELSE {"Agent could not set permissions of socket file"})
            /\ UNCHANGED crashed
       ELSE /\ crashed' = "fatal"
            /\ sockFile' = (sockFile /\ ~rmOk)
            /\ logs' = logs
                 \cup (IF rmOk THEN {"Removed existing unix socket file"} ELSE {})
                 \cup {"Agent could not start unix listener"}
            /\ UNCHANGED <<listen, lopen, loopPc>>
    /\ UNCHANGED <<requestsClosed, stop, callerPc, loopListen, loopErr, loopConn,
                   connVars, handoffs, conns, closeCalls, stopLog>>

----------------------------------------------------------------------------
\* handleClients, line 91: the goroutine reads s.listen and calls Accept.
CallAccept(g) ==
    /\ Alive
    /\ loopPc[g] = "accept"
    /\ \E l \in ReadListen(g) :
          loopListen' = [loopListen EXCEPT ![g] = l]
    /\ loopPc' = [loopPc EXCEPT ![g] = "inAccept"]
    /\ UNCHANGED <<serverVars, callerPc, crashed, loopErr, loopConn, connVars,
                   histVars>>

\* Mutant of AcceptOk: the intake is started as its own goroutine
\* (go s.handleRequest(conn)) and the loop goes straight back to Accept.
AcceptOk_Go(g) ==
    /\ Alive
    /\ loopPc[g] = "inAccept"
    /\ lopen[loopListen[g]]
    /\ conns < MaxConns
    /\ conns' = conns + 1
    /\ loopPc' = [loopPc EXCEPT ![g] = "accept"]
    /\ connPc' = [connPc EXCEPT ![conns + 1] = "deadline"]
    /\ connOpen' = [connOpen EXCEPT ![conns + 1] = TRUE]
    /\ UNCHANGED <<serverVars, callerPc, crashed, loopListen, loopErr, loopConn,
                   connMsg, connOps, handoffs, logs, starts, closeCalls, stopLog>>

\* Accept returns a connection of a client: handleRequest(conn) is entered.
AcceptOk(g) ==
    /\ Alive
    /\ loopPc[g] = "inAccept"
    /\ lopen[loopListen[g]]
    /\ conns < MaxConns
    /\ conns' = conns + 1
    /\ loopConn' = [loopConn EXCEPT ![g] = conns + 1]
    /\ loopPc' = [loopPc EXCEPT ![g] = "handle"]
    /\ connPc' = [connPc EXCEPT ![conns + 1] = "deadline"]
    /\ connOpen' = [connOpen EXCEPT ![conns + 1] = TRUE]
    /\ UNCHANGED <<serverVars, callerPc, crashed, loopListen, loopErr, connMsg,
                   connOps, handoffs, logs, starts, closeCalls, stopLog>>

\* Accept returns an error because its listener has been closed.
AcceptErrClosed(g) ==
    /\ Alive
    /\ loopPc[g] = "inAccept"
    /\ ~lopen[loopListen[g]]
    /\ loopErr' = [loopErr EXCEPT ![g] = "closed"]
    /\ loopPc' = [loopPc EXCEPT ![g] = "checkStop"]
    /\ UNCHANGED <<serverVars, callerPc, crashed, loopListen, loopConn, connVars,
                   histVars>>

\* Accept returns an error on an open listener (an unexpected listener fault).
AcceptErrOther(g) ==
    /\ Alive
    /\ loopPc[g] = "inAccept"
    /\ lopen[loopListen[g]]
    /\ loopErr' = [loopErr EXCEPT ![g] = "other"]
    /\ loopPc' = [loopPc EXCEPT ![g] = "checkStop"]
    /\ UNCHANGED <<serverVars, callerPc, crashed, loopListen, loopConn, connVars,
                   histVars>>

\* Mutant of CheckStop: an error met while not stopping is logged and the loop
\* tries Accept again (continue instead of return).
CheckStop_Retry(g) ==
    /\ Alive
    /\ loopPc[g] = "checkStop"
    /\ logs' = IF stop THEN logs ELSE logs \cup {"Agent got listener error"}
    /\ loopPc' = [loopPc EXCEPT ![g] = IF stop THEN "closeListen" ELSE "accept"]
    /\ UNCHANGED <<serverVars, callerPc, crashed, loopListen, loopErr, loopConn,
                   connVars, handoffs, starts, conns, closeCalls, stopLog>>

\* Lines 93-98: isStopping decides only whether the error is logged; the
\* loop returns either way.
CheckStop(g) ==
    /\ Alive
    /\ loopPc[g] = "checkStop"
    /\ logs' = IF stop THEN logs ELSE logs \cup {"Agent got listener error"}
    /\ loopPc' = [loopPc EXCEPT ![g] = "closeListen"]
    /\ UNCHANGED <<serverVars, callerPc, crashed, loopListen, loopErr, loopConn,
                   connVars, handoffs, starts, conns, closeCalls, stopLog>>

\* Mutant of LoopNext: the loop ends when handleRequest closed the connection
\* (a fault of one client stops the server).
LoopNext_StopOnFault(g) ==
    /\ Alive
    /\ loopPc[g] = "handle"
    /\ connPc[loopConn[g]] = "returned"
    /\ loopPc' = [loopPc EXCEPT
          ![g] = IF connOpen[loopConn[g]] THEN "accept" ELSE "closeListen"]
    /\ loopConn' = [loopConn EXCEPT ![g] = 0]
    /\ UNCHANGED <<serverVars, callerPc, crashed, loopListen, loopErr, connVars,
                   histVars>>

\* Mutant of LoopNext: the loop does not wait for the send of line 77 (the
\* send is left to a goroutine of its own).
LoopNext_Early(g) ==
    /\ Alive
    /\ loopPc[g] = "handle"
    /\ connPc[loopConn[g]] \in {"send", "returned"}
    /\ loopPc' = [loopPc EXCEPT ![g] = "accept"]
    /\ loopConn' = [loopConn EXCEPT ![g] = 0]
    /\ UNCHANGED <<serverVars, callerPc, crashed, loopListen, loopErr, connVars,
                   histVars>>

\* Mutant of LoopNext: the loop closes the connection when handleRequest has
\* returned.
LoopNext_CloseConn(g) ==
    /\ Alive
    /\ loopPc[g] = "handle"
    /\ connPc[loopConn[g]] = "returned"
    /\ loopPc' = [loopPc EXCEPT ![g] = "accept"]
    /\ loopConn' = [loopConn EXCEPT ![g] = 0]
    /\ connOps' = [connOps EXCEPT
          ![loopConn[g]] = Append(@, [op |-> "Close",
                                      msg |-> [Type |-> "none", Value |-> ""]])]
    /\ connOpen' = [connOpen EXCEPT ![loopConn[g]] = FALSE]
    /\ UNCHANGED <<serverVars, callerPc, crashed, loopListen, loopErr, connPc,
                   connMsg, histVars>>

\* handleRequest has returned: the loop goes on to the next Accept.
LoopNext(g) ==
    /\ Alive
    /\ loopPc[g] = "handle"
    /\ connPc[loopConn[g]] = "returned"
    /\ loopPc' = [loopPc EXCEPT ![g] = "accept"]
    /\ loopConn' = [loopConn EXCEPT ![g] = 0]
    /\ UNCHANGED <<serverVars, callerPc, crashed, loopListen, loopErr, connVars,
                   histVars>>

\* Deferred cleanup, line 86: _ = s.listen.Close().  Closing an open unix
\* listener unlinks its socket file; the error of closing a closed one is
\* dropped.
DeferCloseListen(g) ==
    /\ Alive
    /\ loopPc[g] = "closeListen"
    /\ \E l \in ReadListen(g) :
          /\ lopen' = [lopen EXCEPT ![l] = FALSE]
          /\ sockFile' = IF lopen[l] THEN FALSE ELSE sockFile
    /\ loopPc' = [loopPc EXCEPT ![g] = "closeChan"]
    /\ UNCHANGED <<listen, requestsClosed, stop, callerPc, crashed, loopListen,
                   loopErr, loopConn, connVars, histVars>>

\* Deferred cleanup, line 87: close(s.requests).  Closing a closed channel
\* panics.
DeferCloseChan(g) ==
    /\ Alive
    /\ loopPc[g] = "closeChan"
    /\ closeCalls' = closeCalls + 1
    /\ IF requestsClosed
       THEN /\ crashed' = "panic"
            /\ UNCHANGED <<requestsClosed, loopPc>>
       ELSE /\ requestsClosed' = TRUE
            /\ loopPc' = [loopPc EXCEPT ![g] = "done"]
            /\ UNCHANGED crashed
    /\ UNCHANGED <<sockFile, listen, lopen, stop, callerPc, loopListen, loopErr,
                   loopConn, connVars, handoffs, logs, starts, conns, stopLog>>

----------------------------------------------------------------------------
\* The operations of the server on a connection, as recorded in connOps.
NoMsg == [Type |-> "none", Value |-> ""]
Op(name) == [op |-> name, msg |-> NoMsg]
WriteOp(m) == [op |-> "WriteMessage", msg |-> m]

\* handleRequest, lines 48-53: conn.SetDeadline; on an error log, close, return.
SetDeadline(c, ok) ==
    /\ Alive
    /\ connPc[c] = "deadline"
    /\ IF ok
       THEN /\ connOps' = [connOps EXCEPT ![c] = Append(@, Op("SetDeadline"))]
            /\ connPc' = [connPc EXCEPT ![c] = "read"]
            /\ UNCHANGED <<connOpen, logs>>
       ELSE /\ connOps' = [connOps EXCEPT
                 ![c] = @ \o <<Op("SetDeadline"), Op("Close")>>]
            /\ connOpen' = [connOpen EXCEPT ![c] = FALSE]
            /\ connPc' = [connPc EXCEPT ![c] = "returned"]
            /\ logs' = logs \cup {"Agent got error setting deadline"}
    /\ UNCHANGED <<serverVars, callerPc, crashed, loopVars, connMsg, handoffs,
                   starts, conns, closeCalls, stopLog>>

\* Mutant of ReadMessage: a failed read is logged and handleRequest returns
\* without closing the connection.
ReadMessage_NoClose(c, res) ==
    /\ Alive
    /\ connPc[c] = "read"
    /\ connOps' = [connOps EXCEPT ![c] = Append(@, Op("ReadMessage"))]
    /\ IF res \in MsgTypes
       THEN /\ connMsg' = [connMsg EXCEPT ![c] = res]
            /\ connPc' = [connPc EXCEPT ![c] = "check"]
            /\ UNCHANGED logs
       ELSE /\ connPc' = [connPc EXCEPT ![c] = "returned"]
            /\ logs' = logs \cup {"Agent got message receive error"}
            /\ UNCHANGED connMsg
    /\ UNCHANGED <<serverVars, callerPc, crashed, loopVars, connOpen, handoffs,
                   starts, conns, closeCalls, stopLog>>

\* handleRequest, lines 55-61: ReadMessage returns a message of type res, or
\* fails (res = "fail": a malformed frame, an I/O error, the deadline); on a
\* failure log, close, return.
ReadMessage(c, res) ==
    /\ Alive
    /\ connPc[c] = "read"
    /\ IF res \in MsgTypes
       THEN /\ connOps' = [connOps EXCEPT ![c] = Append(@, Op("ReadMessage"))]
            /\ connMsg' = [connMsg EXCEPT ![c] = res]
            /\ connPc' = [connPc EXCEPT ![c] = "check"]
            /\ UNCHANGED <<connOpen, logs>>
       ELSE /\ connOps' = [connOps EXCEPT
                 ![c] = @ \o <<Op("ReadMessage"), Op("Close")>>]
            /\ connOpen' = [connOpen EXCEPT ![c] = FALSE]
            /\ connPc' = [connPc EXCEPT ![c] = "returned"]
            /\ logs' = logs \cup {"Agent got message receive error"}
            /\ UNCHANGED connMsg
    /\ UNCHANGED <<serverVars, callerPc, crashed, loopVars, handoffs, starts,
                   conns, closeCalls, stopLog>>

\* Mutant of CheckType: the default case writes the Error message and leaves
\* the connection open.
CheckType_NoClose(c, wOk) ==
    /\ Alive
    /\ connPc[c] = "check"
    /\ IF connMsg[c] \in {TypeQuery, TypeRelogin}
       THEN /\ wOk
            /\ UNCHANGED <<connOps, logs>>
       ELSE /\ connOps' = [connOps EXCEPT
                 ![c] = Append(@, WriteOp(NewError("invalid message")))]
            /\ logs' = IF wOk THEN logs
                       ELSE logs \cup {"Agent got message send error"}
    /\ connPc' = [connPc EXCEPT ![c] = "send"]
    /\ UNCHANGED <<serverVars, callerPc, crashed, loopVars, connOpen, connMsg,
                   handoffs, starts, conns, closeCalls, stopLog>>

\* Mutant of CheckType: the switch has no case for TypeRelogin.
CheckType_QueryOnly(c, wOk) ==
    /\ Alive
    /\ connPc[c] = "check"
    /\ IF connMsg[c] = TypeQuery
       THEN /\ wOk
            /\ UNCHANGED <<connOps, connOpen, logs>>
       ELSE /\ connOps' = [connOps EXCEPT
                 ![c] = @ \o <<WriteOp(NewError("invalid message")), Op("Close")>>]
            /\ connOpen' = [connOpen EXCEPT ![c] = FALSE]
            /\ logs' = IF wOk THEN logs
                       ELSE logs \cup {"Agent got message send error"}
    /\ connPc' = [connPc EXCEPT ![c] = "send"]
    /\ UNCHANGED <<serverVars, callerPc, crashed, loopVars, connMsg, handoffs,
                   starts, conns, closeCalls, stopLog>>

\* Mutant of CheckType: the default case returns after the close, so that a
\* rejected request is not forwarded.
CheckType_ReturnOnInvalid(c, wOk) ==
    /\ Alive
    /\ connPc[c] = "check"
    /\ IF connMsg[c] \in {TypeQuery, TypeRelogin}
       THEN /\ wOk
            /\ connPc' = [connPc EXCEPT ![c] = "send"]
            /\ UNCHANGED <<connOps, connOpen, logs>>
       ELSE /\ connOps' = [connOps EXCEPT
                 ![c] = @ \o <<WriteOp(NewError("invalid message")), Op("Close")>>]
            /\ connOpen' = [connOpen EXCEPT ![c] = FALSE]
            /\ connPc' = [connPc EXCEPT ![c] = "returned"]
            /\ logs' = IF wOk THEN logs
                       ELSE logs \cup {"Agent got message send error"}
    /\ UNCHANGED <<serverVars, callerPc, crashed, loopVars, connMsg, handoffs,
                   starts, conns, closeCalls, stopLog>>

\* handleRequest, lines 63-74: the switch on msg.Type.  A known type falls
\* through; any other type gets an Error message written (wOk: WriteMessage
\* succeeded) and the connection closed.  Control then reaches the send of
\* line 77 in both cases.
CheckType(c, wOk) ==
    /\ Alive
    /\ connPc[c] = "check"
    /\ IF connMsg[c] \in {TypeQuery, TypeRelogin}
       THEN /\ wOk
            /\ UNCHANGED <<connOps, connOpen, logs>>
       ELSE /\ connOps' = [connOps EXCEPT
                 ![c] = @ \o <<WriteOp(NewError("invalid message")), Op("Close")>>]
            /\ connOpen' = [connOpen EXCEPT ![c] = FALSE]
            /\ logs' = IF wOk THEN logs
                       ELSE logs \cup {"Agent got message send error"}
    /\ connPc' = [connPc EXCEPT ![c] = "send"]
    /\ UNCHANGED <<serverVars, callerPc, crashed, loopVars, connMsg, handoffs,
                   starts, conns, closeCalls, stopLog>>

\* Number of Stop calls that have returned.
StopsReturned ==
    Cardinality({k \in 1..Len(stopLog) : stopLog[k].outcome = "returned"})

\* handleRequest, lines 76-81: the send on the unbuffered channel completes
\* when a receiver (to) takes the request; handleRequest then returns.
Handoff(c, to) ==
    /\ connPc[c] = "send"
    /\ ~requestsClosed
    /\ handoffs' = Append(handoffs,
          [req |-> Request(connMsg[c], c), to |-> to])
    /\ connPc' = [connPc EXCEPT ![c] = "returned"]

\* handleRequest, line 77, on a closed channel: the send panics.
SendPanic(c) ==
    /\ Alive
    /\ connPc[c] = "send"
    /\ requestsClosed
    /\ crashed' = "panic"
    /\ UNCHANGED <<serverVars, callerPc, loopVars, connVars, histVars>>

\* The agent receives a request from Requests().
ConsumerRecv(c) ==
    /\ Alive
    /\ Handoff(c, "consumer")
    /\ UNCHANGED <<serverVars, callerPc, crashed, loopVars, connOpen, connMsg,
                   connOps, logs, starts, conns, closeCalls, stopLog>>

----------------------------------------------------------------------------
SetOutcome(o) == [stopLog EXCEPT ![Len(stopLog)].outcome = o]

\* Mutant of StopCall: Stop does not mark the server as stopping.
StopCall_NoFlag ==
    /\ Alive
    /\ callerPc = "idle"
    /\ Len(stopLog) < MaxStops
    /\ callerPc' = "stopClose"
    /\ stopLog' = Append(stopLog,
          [listen |-> listen,
           midIntake |-> {c \in Conns : InIntake(c)},
           outcome |-> "closing"])
    /\ UNCHANGED <<serverVars, crashed, loopVars, connVars, handoffs, logs,
                   starts, conns, closeCalls>>

\* Server.Stop, line 132: setStopping.  The record of the call notes the
\* listener s.listen names and the connections in intake at the call.
StopCall ==
    /\ Alive
    /\ callerPc = "idle"
    /\ Len(stopLog) < MaxStops
    /\ stop' = TRUE
    /\ callerPc' = "stopClose"
    /\ stopLog' = Append(stopLog,
          [listen |-> listen,
           midIntake |-> {c \in Conns : InIntake(c)},
           outcome |-> "closing"])
    /\ UNCHANGED <<sockFile, listen, lopen, requestsClosed, crashed, loopVars,
                   connVars, handoffs, logs, starts, conns, closeCalls>>

\* Mutant of StopClose: the error of closing a closed listener is dropped and
\* Stop goes on to drain the channel.
StopClose_IgnoreErr ==
    /\ Alive
    /\ callerPc = "stopClose"
    /\ IF listen = 0
       THEN /\ crashed' = "panic"
            /\ stopLog' = SetOutcome("panic")
            /\ UNCHANGED <<lopen, sockFile, callerPc>>
       ELSE /\ lopen' = [lopen EXCEPT ![listen] = FALSE]
            /\ sockFile' = IF lopen[listen] THEN FALSE ELSE sockFile
            /\ callerPc' = "stopDrain"
            /\ stopLog' = SetOutcome("draining")
            /\ UNCHANGED crashed
    /\ UNCHANGED <<listen, requestsClosed, stop, loopVars, connVars, handoffs,
                   logs, starts, conns, closeCalls>>

\* Server.Stop, lines 133-136: s.listen.Close().  On a nil listener the call
\* panics; closing a closed listener returns an error, which is fatal.
StopClose ==
    /\ Alive
    /\ callerPc = "stopClose"
    /\ IF listen = 0
       THEN /\ crashed' = "panic"
            /\ stopLog' = SetOutcome("panic")
            /\ UNCHANGED <<lopen, sockFile, callerPc, logs>>
       ELSE IF lopen[listen]
       THEN /\ lopen' = [lopen EXCEPT ![listen] = FALSE]
            /\ sockFile' = FALSE
            /\ callerPc' = "stopDrain"
            /\ stopLog' = SetOutcome("draining")
            /\ UNCHANGED <<crashed, logs>>
       ELSE /\ crashed' = "fatal"
            /\ logs' = logs \cup {"Agent could not close unix listener"}
            /\ stopLog' = SetOutcome("fatal")
            /\ UNCHANGED <<lopen, sockFile, callerPc>>
    /\ UNCHANGED <<listen, requestsClosed, stop, loopVars, connVars, handoffs,
                   starts, conns, closeCalls>>

\* Mutant of StopDrainRecv: Stop receives one request (<-s.requests) instead
\* of ranging over the channel, and returns.
StopDrainRecv_Once(c) ==
    /\ Alive
    /\ callerPc = "stopDrain"
    /\ Handoff(c, "stop")
    /\ callerPc' = "idle"
    /\ stopLog' = SetOutcome("returned")
    /\ UNCHANGED <<serverVars, crashed, loopVars, connOpen, connMsg, connOps,
                   logs, starts, conns, closeCalls>>

\* Server.Stop, lines 137-139: the range loop receives a request and drops it.
StopDrainRecv(c) ==
    /\ Alive
    /\ callerPc = "stopDrain"
    /\ Handoff(c, "stop")
    /\ UNCHANGED <<serverVars, callerPc, crashed, loopVars, connOpen, connMsg,
                   connOps, logs, starts, conns, closeCalls, stopLog>>

\* Mutant of StopReturn: Stop does not wait for the channel to be closed.
StopReturn_NoWait ==
    /\ Alive
    /\ callerPc = "stopDrain"
    /\ callerPc' = "idle"
    /\ stopLog' = SetOutcome("returned")
    /\ UNCHANGED <<serverVars, crashed, loopVars, connVars, handoffs, logs,
                   starts, conns, closeCalls>>

\* Server.Stop, lines 137-140: the range loop ends on the closed channel and
\* Stop returns.
StopReturn ==
    /\ Alive
    /\ callerPc = "stopDrain"
    /\ requestsClosed
    /\ callerPc' = "idle"
    /\ stopLog' = SetOutcome("returned")
    /\ UNCHANGED <<serverVars, crashed, loopVars, connVars, handoffs, logs,
                   starts, conns, closeCalls>>

----------------------------------------------------------------------------
\* The steps of the goroutines, of the agent and of a running Stop.
Run ==
    \/ \E g \in Loops : CallAccept(g)
    \/ \E g \in Loops : AcceptOk(g)
    \/ \E g \in Loops : AcceptErrClosed(g)
    \/ \E g \in Loops : AcceptErrOther(g)
    \/ \E g \in Loops : CheckStop(g)
    \/ \E g \in Loops : LoopNext(g)
    \/ \E g \in Loops : DeferCloseListen(g)
    \/ \E g \in Loops : DeferCloseChan(g)
    \/ \E c \in Conns, ok \in BOOLEAN : SetDeadline(c, ok)
    \/ \E c \in Conns, res \in MsgTypes \cup {"fail"} : ReadMessage(c, res)
    \/ \E c \in Conns, wOk \in BOOLEAN : CheckType(c, wOk)
    \/ \E c \in Conns : ConsumerRecv(c)
    \/ StopCall
    \/ StopClose
    \/ \E c \in Conns : StopDrainRecv(c)
    \/ StopReturn

\* Start is called once.  With one accept loop no send can meet the closed
\* channel (SendNeverOnClosed below), so SendPanic has no part in it.
Next ==
    \/ \E rmOk, bindOk, chmodOk \in BOOLEAN :
          starts = 0 /\ Start(rmOk, bindOk, chmodOk)
    \/ Run

\* Start and Stop are called in any sequence.
NextRestart ==
    \/ \E rmOk, bindOk, chmodOk \in BOOLEAN :
          starts < MaxStarts /\ Start(rmOk, bindOk, chmodOk)
    \/ \E c \in Conns : SendPanic(c)
    \/ Run

Spec == Init /\ [][Next]_vars

\* The scheduler runs every goroutine that can take a step: the accept loop,
\* the intake of a connection (a read ends by the deadline at the latest) and
\* the thread inside Stop.  Nothing makes a client connect, an open listener
\* fail, the agent receive, or the caller call Start or Stop.
Fairness ==
    /\ \A g \in Loops :
          /\ WF_vars(CallAccept(g))
          /\ WF_vars(AcceptErrClosed(g))
          /\ WF_vars(CheckStop(g))
          /\ WF_vars(LoopNext(g))
          /\ WF_vars(DeferCloseListen(g))
          /\ WF_vars(DeferCloseChan(g))
    /\ \A c \in Conns :
          /\ WF_vars(\E ok \in BOOLEAN : SetDeadline(c, ok))
          /\ WF_vars(\E res \in MsgTypes \cup {"fail"} : ReadMessage(c, res))
          /\ WF_vars(\E wOk \in BOOLEAN : CheckType(c, wOk))
          /\ WF_vars(SendPanic(c))
    /\ WF_vars(StopClose)
    /\ WF_vars(\E c \in Conns : StopDrainRecv(c))
    /\ WF_vars(StopReturn)

FairSpec == Spec /\ Fairness

SpecRestart == Init /\ [][NextRestart]_vars

\* With Start called once, no send is ever pending on the closed channel.
SendNeverOnClosed == \A c \in Conns : connPc[c] = "send" => ~requestsClosed

----------------------------------------------------------------------------
\* Helpers of the properties.

\* The outcome of the k-th Stop call, "none" if it has not been made.
StopOutcome(k) == IF k <= Len(stopLog) THEN stopLog[k].outcome ELSE "none"

\* The connections whose request has been received from the channel.
HandedOff == {handoffs[i].req.conn : i \in 1..Len(handoffs)}

IsWriteOrClose(o) == o.op \in {"WriteMessage", "Close"}

\* The writes and closes the server did on connection c, in order.
WritesAndCloses(c) == SelectSeq(connOps[c], IsWriteOrClose)

\* handleRequest(c) is past the switch on msg.Type.
PastCheck(c) == connPc[c] \in {"send", "returned"}

----------------------------------------------------------------------------
\* C1: Stop returns only after the accept loop has closed the requests
\* channel, and once a Stop call has returned no request is handed off on the
\* channel any more.
C1_StopReturnsAfterClose ==
    /\ [](StopsReturned > 0 =>
            /\ requestsClosed
            /\ closeCalls >= 1
            /\ \E g \in Loops : loopPc[g] = "done")
    /\ [][StopsReturned > 0 => handoffs' = handoffs]_vars

\* Stop has returned after it took a request off the channel itself.
C1_Witness ==
    /\ StopsReturned > 0
    /\ \E i \in 1..Len(handoffs) : handoffs[i].to = "stop"

\* C2: on a server started once, requests are received from the channel in
\* the order in which their connections were accepted (connections are
\* numbered in the order of Accept).
C2_HandoffFIFO ==
    \A i, j \in 1..Len(handoffs) :
        i < j => handoffs[i].req.conn < handoffs[j].req.conn

\* Two accepted connections have both been handed off.
C2_Witness == Len(handoffs) >= 2 /\ conns >= 2

\* C3 (as stated): under any sequence of Start and Stop calls the channel is
\* closed at most once, only when no accept loop is accepting any more, and no
\* send is pending on the closed channel.
C3_ClosedOnce ==
    /\ closeCalls <= 1
    /\ requestsClosed => \A g \in Loops : ~LoopRunning(g)
    /\ \A c \in Conns : connPc[c] = "send" => ~requestsClosed

\* C4 (as stated): a first Stop call made on a started server whose accept
\* loop is still running (no Accept of it has failed so far) eventually
\* returns.
C4_StopReturns ==
    (/\ callerPc = "stopClose"
     /\ Len(stopLog) = 1
     /\ LoopRunning(1)
     /\ loopErr[1] = "none")
        ~> (StopOutcome(1) = "returned")

\* C5: a connection whose message has a type other than Query and Relogin
\* gets exactly one write, the Error message "invalid message", followed by
\* exactly one close, and nothing is written or closed before the switch.
C5_InvalidRejected ==
    \A c \in Conns :
        connMsg[c] \in MsgTypes \ {TypeQuery, TypeRelogin} =>
            /\ connPc[c] = "check" => WritesAndCloses(c) = <<>>
            /\ PastCheck(c) =>
                 /\ WritesAndCloses(c) =
                      <<WriteOp([Type |-> "Error", Value |-> "invalid message"]),
                        Op("Close")>>
                 /\ ~connOpen[c]

\* A connection with an unknown message type is past the switch.
C5_Witness ==
    \E c \in Conns : connMsg[c] = "Unknown" /\ PastCheck(c)

\* C6: on a connection whose message was read and has type Query or Relogin
\* the server writes nothing and does not close it: it is open when it is
\* handed off.
C6_ValidUntouched ==
    \A c \in Conns :
        connMsg[c] \in {TypeQuery, TypeRelogin} =>
            /\ WritesAndCloses(c) = <<>>
            /\ connOpen[c]

\* A connection with a Relogin message has been handed off.
C6_Witness ==
    \E c \in HandedOff : connMsg[c] = TypeRelogin

\* C7 (as stated): every request received from the channel carries a
\* connection the server has not closed.
C7_HandoffOpen ==
    \A i \in 1..Len(handoffs) : connOpen[handoffs[i].req.conn]

\* C8: on a server started once, a Stop call that has returned finds every
\* connection that was in intake when it was called through its intake, and
\* the accept loop ended.
C8_StopWaitsForIntake ==
    \A k \in 1..Len(stopLog) :
        stopLog[k].outcome = "returned" =>
            /\ \A c \in stopLog[k].midIntake : connPc[c] = "returned"
            /\ \A g \in Loops : loopPc[g] \in {"none", "done"}

\* A Stop call made while a connection was in intake has returned.
C8_Witness ==
    \E k \in 1..Len(stopLog) :
        stopLog[k].outcome = "returned" /\ stopLog[k].midIntake # {}

\* C9: a Stop call that follows a returned Stop call on the same listener
\* never gets past closing the listener: it does not drain and does not
\* return, it ends in log.Fatal.
C9_SecondStopFatal ==
    \A k \in 2..Len(stopLog) :
        (stopLog[k - 1].outcome = "returned"
            /\ stopLog[k].listen = stopLog[k - 1].listen)
        => /\ stopLog[k].outcome \in {"closing", "fatal"}
           /\ stopLog[k].outcome = "closing" => callerPc = "stopClose"

\* The second Stop call has ended in log.Fatal.
C9_Witness ==
    /\ StopOutcome(1) = "returned"
    /\ StopOutcome(2) = "fatal"
    /\ crashed = "fatal"

\* C10 (as stated): at most one listener made by the server is open.
C10_OneListener == Cardinality({l \in Loops : lopen[l]}) <= 1


----------------------------------------------------------------------------
\* The number of times the request of connection c was received from the
\* channel.
TimesHandedOff(c) ==
    Cardinality({i \in 1..Len(handoffs) : handoffs[i].req.conn = c})

\* C11: on a server started once, a connection whose message was read is sent
\* on the channel whatever its type: it is not handed off before the switch,
\* it cannot return from handleRequest except through the send, and once
\* handleRequest has returned its request was received exactly once, also
\* when the type was rejected and the connection closed.
C11_AlwaysForwarded ==
    \A c \in Conns :
        connMsg[c] \in MsgTypes =>
            /\ connPc[c] \in {"check", "send", "returned"}
            /\ connPc[c] \in {"check", "send"} => TimesHandedOff(c) = 0
            /\ connPc[c] = "returned" => TimesHandedOff(c) = 1

\* A rejected request, whose connection the server closed, was handed off.
C11_Witness ==
    \E c \in HandedOff :
        connMsg[c] \in MsgTypes \ {TypeQuery, TypeRelogin} /\ ~connOpen[c]

\* handleRequest(c) returned without a message: SetDeadline or ReadMessage
\* failed.
IntakeFailed(c) == connPc[c] = "returned" /\ connMsg[c] = "none"

\* C12: a connection on which SetDeadline or ReadMessage failed is closed
\* exactly once, nothing is written to it and no request for it is handed
\* off.
C12_FailedIntakeClosed ==
    \A c \in Conns :
        IntakeFailed(c) =>
            /\ WritesAndCloses(c) = <<Op("Close")>>
            /\ ~connOpen[c]
            /\ TimesHandedOff(c) = 0

\* A connection whose read failed (after its deadline was set) is done.
C12_Witness ==
    \E c \in Conns : IntakeFailed(c) /\ Len(connOps[c]) = 3

\* C13: the steps that handle a faulty connection (a failed SetDeadline or
\* ReadMessage, a rejected type) leave the listener, the channel and the
\* stopping flag as they are and keep the accept loop in its loop: from
\* handleRequest it only goes on to the next Accept.
C13_FaultKeepsLoop ==
    [][\A g \in Loops :
         (/\ loopPc[g] = "handle"
          /\ connPc'[loopConn[g]] \in {"send", "returned"}
          /\ connMsg'[loopConn[g]] \notin {TypeQuery, TypeRelogin}
          /\ (loopPc'[g] # loopPc[g]
                \/ connPc'[loopConn[g]] # connPc[loopConn[g]]))
         => /\ loopPc'[g] \in {"handle", "accept"}
            /\ lopen' = lopen
            /\ requestsClosed' = requestsClosed
            /\ stop' = stop]_vars

\* After a connection whose intake failed, the next connection was accepted
\* and handed off.
C13_Witness ==
    /\ IntakeFailed(1)
    /\ 2 \in HandedOff
    /\ connMsg[2] = TypeQuery

\* C14: on a server started once, an Accept error of either kind ends the
\* accept loop: from then on the loop is in its cleanup or done, no connection
\* is accepted and no request handed off; the cleanup closes the listener
\* before the channel, and when it is done both are closed.
C14_AcceptErrorEndsLoop ==
    /\ [](\A g \in Loops :
            loopErr[g] # "none" =>
                /\ loopPc[g] \in {"checkStop", "closeListen", "closeChan", "done"}
                /\ loopPc[g] \in {"closeChan", "done"} => ~lopen[g]
                /\ loopPc[g] = "done" => requestsClosed)
    /\ [][(\E g \in Loops : loopErr[g] # "none") =>
            (conns' = conns /\ handoffs' = handoffs)]_vars

\* The loop ended on an Accept error met while the server was not stopping.
C14_Witness ==
    /\ loopPc[1] = "done"
    /\ loopErr[1] = "other"
    /\ ~stop

\* C15: on a server started once, an Accept error that comes from Stop's close
\* of the listener is never logged as a listener error: the loop finds the
\* stopping flag set when it checks it.
C15_StopErrorNotLogged ==
    \A g \in Loops :
        loopErr[g] = "closed" =>
            /\ stop
            /\ "Agent got listener error" \notin logs

\* The loop is past its check of the flag after Stop closed the listener
\* under a blocked Accept.
C15_Witness ==
    /\ loopErr[1] = "closed"
    /\ loopPc[1] \in {"closeListen", "closeChan", "done"}

\* C16: on a server started once, at most one connection is inside
\* handleRequest (intake or pending send), the accept loop is inside that
\* call, and while a send is pending no connection is accepted.
C16_IntakeSerialized ==
    /\ [](/\ Cardinality({c \in Conns : InIntake(c)}) <= 1
          /\ \A c \in Conns :
                InIntake(c) =>
                    \E g \in Loops : loopPc[g] = "handle" /\ loopConn[g] = c)
    /\ [][(\E c \in Conns : connPc[c] = "send") => conns' = conns]_vars

\* A send is pending while the listener is open and a further connection
\* could be numbered.
C16_Witness ==
    /\ connPc[1] = "send"
    /\ lopen[1]
    /\ conns < MaxConns

\* C17: once the request of a connection has been received from the channel,
\* the server does nothing more on the connection.
C17_NoTouchAfterHandoff ==
    [][\A c \in HandedOff :
         connOps'[c] = connOps[c] /\ connOpen'[c] = connOpen[c]]_vars

\* The accept loop has gone on after handing off an open connection.
C17_Witness ==
    \E c \in HandedOff : connOpen[c] /\ conns > c

\* C18: Start launches the accept loop exactly when net.Listen succeeded: a
\* failed bind is fatal, no loop runs and no connection is accepted; after a
\* successful bind the loop is launched whatever os.Remove and os.Chmod
\* returned.
C18_LoopIffBind ==
    starts >= 1 =>
        IF "Agent could not start unix listener" \in logs
        THEN /\ crashed = "fatal"
             /\ listen = 0
             /\ \A g \in Loops : loopPc[g] = "none"
             /\ conns = 0
        ELSE /\ listen = 1
             /\ loopPc[1] # "none"

\* The loop runs after a Start that removed a stale socket file and could not
\* set the permissions of the new one.
C18_Witness ==
    /\ loopPc[1] = "inAccept"
    /\ "Removed existing unix socket file" \in logs
    /\ "Agent could not set permissions of socket file" \in logs

\* C19 (as stated): a request that Stop's drain loop received and dropped
\* carries a connection the server has closed.
C19_DrainDropsOnlyClosed ==
    \A i \in 1..Len(handoffs) :
        handoffs[i].to = "stop" => ~connOpen[handoffs[i].req.conn]

\* C20 (as stated): the only Stop call made on a started server does not end
\* in log.Fatal.
C20_SingleStopNotFatal ==
    (starts = 1 /\ listen = 1 /\ Len(stopLog) = 1) => crashed # "fatal"

============================================================================
